---------------------------- MODULE Spec2Model ----------------------------
(***************************************************************************)
(* Model of the tool registry (generation/tools/mod.rs) and of the request *)
(* directives (generation/parameters.rs) of ollama-rs.                     *)
(*                                                                         *)
(* Text is a sequence of strings that concatenate to it: text that is      *)
(* computed is held one character per element, so that serialisation to    *)
(* text is computed character by character, and a constant word is held    *)
(* whole, as <<"object">>.  A JSON value is a record                       *)
(* [t, s, i, a, o]: t is the JSON type, s the text of a string, i the value *)
(* of an integer, a the elements of an array and o the members of an       *)
(* object.                                                                 *)
(***************************************************************************)
EXTENDS Integers, Sequences, FiniteSets, TLC

VARIABLES registry, call, stack, ret, log,
          lists, enumCount,
          toolInfo, toolWire,
          format, formatWire,
          keepAlive, keepAliveWire

\* What the dispatch, the enumeration, the descriptors, the response format
\* and the keep-alive directive each leave alone.
notDispatch == <<lists, enumCount, toolInfo, toolWire, format, formatWire,
                 keepAlive, keepAliveWire>>
notEnumerate == <<call, stack, ret, log, toolInfo, toolWire, format, formatWire,
                  keepAlive, keepAliveWire>>
notDescriptor == <<registry, call, stack, ret, log, lists, enumCount, format, formatWire,
                   keepAlive, keepAliveWire>>
notFormat == <<registry, call, stack, ret, log, lists, enumCount, toolInfo, toolWire,
               keepAlive, keepAliveWire>>
notKeepAlive == <<registry, call, stack, ret, log, lists, enumCount, toolInfo, toolWire,
                  format, formatWire>>
vars == <<registry, call, stack, ret, log, lists, enumCount,
          toolInfo, toolWire, format, formatWire, keepAlive, keepAliveWire>>

(***************************************************************************)
(* Bounds of the model.                                                    *)
(***************************************************************************)
MaxLeaves == 3
MaxEnum == 2
MaxTime == 40

(***************************************************************************)
(* JSON values (serde_json::Value).                                        *)
(***************************************************************************)
NoMembers == <<>>
JNull == [t |-> "null", s |-> <<>>, i |-> 0, a |-> <<>>, o |-> NoMembers]
JStr(text) == [t |-> "string", s |-> text, i |-> 0, a |-> <<>>, o |-> NoMembers]
JInt(n) == [t |-> "number", s |-> <<>>, i |-> n, a |-> <<>>, o |-> NoMembers]
JArr(elems) == [t |-> "array", s |-> <<>>, i |-> 0, a |-> elems, o |-> NoMembers]
JObj(members) == [t |-> "object", s |-> <<>>, i |-> 0, a |-> <<>>, o |-> members]
IsObject(v) == v.t = "object"
Keys(v) == DOMAIN v.o
HasKey(v, k) == IsObject(v) /\ k \in Keys(v)

\* Map::remove: the members without key k.
MapRemove(m, k) == [x \in (DOMAIN m) \ {k} |-> m[x]]
\* Map::insert: key k bound to v, replacing any member already under k.
MapInsert(m, k, v) == [x \in (DOMAIN m) \cup {k} |-> IF x = k THEN v ELSE m[x]]

(***************************************************************************)
(* Parameter shapes: structs that derive Deserialize and JsonSchema.  A    *)
(* shape has a name, its fields in alphabetical order, and for each field  *)
(* what it holds: a String, or another struct.                             *)
(***************************************************************************)
StringField == [name |-> "String", fields |-> <<>>, types |-> <<>>]
NoArgs == [name |-> "NoArgs", fields |-> <<>>, types |-> <<>>]
City == [name |-> "City", fields |-> <<"city">>, types |-> <<StringField>>]
Place == [name |-> "Place", fields |-> <<"place">>, types |-> <<City>>]
Trip == [name |-> "Trip", fields |-> <<"from", "to">>, types |-> <<City, City>>]
Shapes == {NoArgs, City, Place, Trip}
IsString(shape) == shape.name = "String"

(***************************************************************************)
(* Tool capabilities: implementations of the Tool trait.  name and         *)
(* description are static; params is the shape of Tool::Params.            *)
(***************************************************************************)

GetWeather == [name |-> "get_weather", description |-> "Weather in a city", params |-> City]
GetTime == [name |-> "get_time", description |-> "Current time", params |-> NoArgs]
GetTimeIn == [name |-> "get_time", description |-> "Time at a place", params |-> Place]
ToolTypes == {GetWeather, GetTime, GetTimeIn}

(***************************************************************************)
(* Registries: the implementations of ToolGroup, (), T and (A, B).         *)
(***************************************************************************)
Unit == [kind |-> "unit"]
Single(t) == [kind |-> "tool", tool |-> t]
Pair(a, b) == [kind |-> "pair", l |-> a, r |-> b]

RECURSIVE RegistriesOf(_)
RegistriesOf(n) ==
    IF n = 1 THEN {Unit} \cup {Single(t) : t \in ToolTypes}
    ELSE UNION { {Pair(a, b) : a \in RegistriesOf(k), b \in RegistriesOf(n - k)} :
                 k \in 1..(n - 1) }
Registries == UNION {RegistriesOf(n) : n \in 1..MaxLeaves}

\* The sub-registry at a path: 0 is field .0 of a pair, 1 is field .1.
RECURSIVE NodeAt(_, _)
NodeAt(g, path) ==
    IF path = <<>> THEN g
    ELSE NodeAt(IF Head(path) = 0 THEN g.l ELSE g.r, Tail(path))

(***************************************************************************)
(* Incoming tool calls (ToolCallFunction).                                 *)
(***************************************************************************)
Paris == <<"P", "a", "r", "i", "s">>
InParis == JObj([k \in {"city"} |-> JStr(Paris)])
CallNames == {"get_weather", "get_time", "unknown"}
CallArguments == {JObj(NoMembers), InParis, JObj([k \in {"place"} |-> InParis]), JStr(Paris)}
Calls == [name : CallNames, arguments : CallArguments]
NoCall == [name |-> "", arguments |-> JNull]


(***************************************************************************)
(* Results of ToolGroup::call: Result<String, ToolCallError>.              *)
(***************************************************************************)
NoResult == [tag |-> "None", text |-> <<>>, cause |-> ""]
Ok(text) == [tag |-> "Ok", text |-> text, cause |-> ""]
UnknownToolName == [tag |-> "UnknownToolName", text |-> <<>>, cause |-> ""]

\* The conversions the ? operator applies; ToolCallError is declared in
\* crate::error, and the variants are named as its error taxonomy names them.
\* From<serde_json::Error> for ToolCallError.
FromSerdeError(cause) == [tag |-> "ArgumentDecodeFailed", text |-> <<>>, cause |-> cause]
\* From<Box<dyn Error + Sync + Send>> for ToolCallError.
FromBoxError(cause) == [tag |-> "ExecutionFailed", text |-> <<>>, cause |-> cause]

(***************************************************************************)
(* serde_json::from_value into Tool::Params: a String decodes from a JSON  *)
(* string, a struct from an object that holds, under each of its fields, a *)
(* value the field decodes from; the members of the object are decoded as  *)
(* they are met, and a field that is missing is reported after them.       *)
(***************************************************************************)
RECURSIVE from_value(_, _)
from_value(shape, value) ==
    IF IsString(shape)
    THEN IF value.t = "string" THEN [ok |-> TRUE, cause |-> ""]
         ELSE [ok |-> FALSE, cause |-> "invalid type"]
    ELSE IF ~IsObject(value)
    THEN [ok |-> FALSE, cause |-> "invalid type"]
    ELSE LET present == {k \in 1..Len(shape.fields) : shape.fields[k] \in Keys(value)}
             decoded(k) == from_value(shape.types[k], value.o[shape.fields[k]])
             failed == {k \in present : ~decoded(k).ok}
         IN  IF failed # {}
             THEN decoded(CHOOSE k \in failed : \A j \in failed : k <= j)
             ELSE IF present # 1..Len(shape.fields)
             THEN [ok |-> FALSE, cause |-> "missing field"]
             ELSE [ok |-> TRUE, cause |-> ""]

(***************************************************************************)
(* serde_json::to_string of a String: the text between double quotes, with *)
(* the quote, the backslash and the line feed escaped.                     *)
(***************************************************************************)
Quote == "\""
Backslash == "\\"
LineFeed == "\n"

EscapeChar(c) ==
    IF c = Quote THEN <<Backslash, Quote>>
    ELSE IF c = Backslash THEN <<Backslash, Backslash>>
    ELSE IF c = LineFeed THEN <<Backslash, "n">>
    ELSE <<c>>

RECURSIVE Escape(_)
Escape(text) ==
    IF text = <<>> THEN <<>> ELSE EscapeChar(Head(text)) \o Escape(Tail(text))

to_string_unescaped(text) == <<Quote>> \o text \o <<Quote>>
to_string(text) == <<Quote>> \o Escape(text) \o <<Quote>>

(***************************************************************************)
(* What Tool::call of a capability may return.                             *)
(***************************************************************************)
Texts == {<<"o", "k">>, <<"a", Quote, Backslash, LineFeed>>}
Causes == {"timeout"}
ToolOutcomes == {[ok |-> TRUE, text |-> r, cause |-> ""] : r \in Texts}
                \cup {[ok |-> FALSE, text |-> <<>>, cause |-> e] : e \in Causes}

(***************************************************************************)
(* The dispatch in progress: stack holds the calls of ToolGroup::call that *)
(* have not returned, the innermost last; ret is what the last call to     *)
(* return gave its caller; log records, for the dispatch in progress, each  *)
(* start of a ToolGroup::call, each invocation of a Tool::call with what   *)
(* it returned, and each return of a ToolGroup::call.                      *)
(***************************************************************************)
Frame(path, stage) == [path |-> path, stage |-> stage]
Event(ev, path, res) == [ev |-> ev, path |-> path, res |-> res]

Top == stack[Len(stack)]
Popped == SubSeq(stack, 1, Len(stack) - 1)
TopNode == NodeAt(registry, Top.path)
Idle == stack = <<>>

\* A call returns res to its caller.
Return(res) ==
    /\ stack' = Popped
    /\ ret' = res
    /\ log' = Append(log, Event("done", Top.path, res))

\* A pair starts the call of one of its fields.
Enter(stage, side) ==
    /\ stack' = Append(Append(Popped, Frame(Top.path, stage)),
                       Frame(Append(Top.path, side), "enter"))
    /\ ret' = NoResult
    /\ log' = Append(log, Event("start", Append(Top.path, side), NoResult))

\* The transport hands an incoming call to the registry.
Dispatch(c) ==
    /\ Idle
    /\ call' = c
    /\ stack' = <<Frame(<<>>, "enter")>>
    /\ ret' = NoResult
    /\ log' = <<Event("start", <<>>, NoResult)>>
    /\ UNCHANGED <<registry, notDispatch>>

\* impl ToolGroup for (): call.
UnitCallResultOk == Ok(<<>>)
UnitCallResult == UnknownToolName

UnitCall ==
    /\ ~Idle /\ Top.stage = "enter" /\ TopNode.kind = "unit"
    /\ Return(UnitCallResult)
    /\ UNCHANGED <<registry, call, notDispatch>>

\* impl<T: Tool> ToolGroup for T: call.
NameMatchesAlways(c, t) == TRUE
NameMatches(c, t) == c.name = t.name

ToolCallNoMatch ==
    /\ ~Idle /\ Top.stage = "enter" /\ TopNode.kind = "tool"
    /\ ~NameMatches(call, TopNode.tool)
    /\ Return(UnknownToolName)
    /\ UNCHANGED <<registry, call, notDispatch>>

ToolCallDecodeFailed ==
    /\ ~Idle /\ Top.stage = "enter" /\ TopNode.kind = "tool"
    /\ NameMatches(call, TopNode.tool)
    /\ ~from_value(TopNode.tool.params, call.arguments).ok
    /\ Return(FromSerdeError(from_value(TopNode.tool.params, call.arguments).cause))
    /\ UNCHANGED <<registry, call, notDispatch>>

ToolCallInvoke ==
    /\ ~Idle /\ Top.stage = "enter" /\ TopNode.kind = "tool"
    /\ NameMatches(call, TopNode.tool)
    /\ from_value(TopNode.tool.params, call.arguments).ok
    /\ stack' = Append(Popped, Frame(Top.path, "await"))
    /\ log' = Append(log, Event("invoke", Top.path, NoResult))
    /\ UNCHANGED <<registry, call, ret, notDispatch>>

\* What Tool::call returned, as the log records it.
Outcome(outcome) ==
    [tag |-> IF outcome.ok THEN "CallOk" ELSE "CallErr",
     text |-> outcome.text, cause |-> outcome.cause]

ToolCallResultSwallowed(outcome) ==
    IF outcome.ok THEN Ok(to_string(outcome.text)) ELSE UnknownToolName

ToolCallResult(outcome) ==
    IF outcome.ok THEN Ok(to_string(outcome.text)) ELSE FromBoxError(outcome.cause)

ToolCallReturn(outcome) ==
    /\ ~Idle /\ Top.stage = "await"
    /\ stack' = Popped
    /\ ret' = ToolCallResult(outcome)
    /\ log' = log \o <<Event("outcome", Top.path, Outcome(outcome)),
                       Event("done", Top.path, ToolCallResult(outcome))>>
    /\ UNCHANGED <<registry, call, notDispatch>>

\* impl ToolGroup for (A, B): call.
FallsThroughOnAnyError(res) == res.tag # "Ok"
FallsThrough(res) == res.tag = "UnknownToolName"

PairCallLeft ==
    /\ ~Idle /\ Top.stage = "enter" /\ TopNode.kind = "pair"
    /\ Enter("left", 0)
    /\ UNCHANGED <<registry, call, notDispatch>>

PairCallRight ==
    /\ ~Idle /\ Top.stage = "left"
    /\ FallsThrough(ret)
    /\ Enter("right", 1)
    /\ UNCHANGED <<registry, call, notDispatch>>

PairReturnLeft ==
    /\ ~Idle /\ Top.stage = "left"
    /\ ~FallsThrough(ret)
    /\ Return(ret)
    /\ UNCHANGED <<registry, call, notDispatch>>

PairReturnRight ==
    /\ ~Idle /\ Top.stage = "right"
    /\ Return(ret)
    /\ UNCHANGED <<registry, call, notDispatch>>

DispatchInit ==
    /\ registry \in Registries
    /\ call = NoCall
    /\ stack = <<>>
    /\ ret = NoResult
    /\ log = <<>>

DispatchNext ==
    \/ \E c \in Calls : Dispatch(c)
    \/ UnitCall
    \/ ToolCallNoMatch
    \/ ToolCallDecodeFailed
    \/ ToolCallInvoke
    \/ \E outcome \in ToolOutcomes : ToolCallReturn(outcome)
    \/ PairCallLeft
    \/ PairCallRight
    \/ PairReturnLeft
    \/ PairReturnRight


(***************************************************************************)
(* schemars: schema::SchemaObject, schema::RootSchema and the generator    *)
(* behind gen::SchemaSettings::draft07().  "" stands for None.             *)
(***************************************************************************)
Draft07 == "http://json-schema.org/draft-07/schema#"
DefinitionsPath == "#/definitions/"
NoExtensions == <<>>

SchemaObject(title, type, properties, required, reference) ==
    [title |-> title, instance_type |-> type, properties |-> properties,
     required |-> required, reference |-> reference, extensions |-> NoExtensions]

\* SchemaGenerator::subschema_for: a struct is referenced by name unless
\* inline_subschemas is set, a String is always inlined.
RECURSIVE subschema_for(_, _), json_schema(_, _)
subschema_for(shape, inline_subschemas) ==
    IF IsString(shape)
    THEN SchemaObject("", "string", <<>>, <<>>, "")
    ELSE IF ~inline_subschemas
    THEN SchemaObject("", "", <<>>, <<>>, DefinitionsPath \o shape.name)
    ELSE json_schema(shape, inline_subschemas)

\* The schema of a struct itself (JsonSchema::json_schema of a derived struct).
json_schema(shape, inline_subschemas) ==
    SchemaObject("", "object",
                 [f \in {shape.fields[k] : k \in 1..Len(shape.fields)} |->
                     subschema_for(
                         shape.types[CHOOSE k \in 1..Len(shape.fields) : shape.fields[k] = f],
                         inline_subschemas)],
                 shape.fields, "")

\* The structs a shape refers to, directly or through its fields.
RECURSIVE Referenced(_)
Referenced(shape) ==
    UNION {IF IsString(shape.types[k]) THEN {}
           ELSE {shape.types[k]} \cup Referenced(shape.types[k]) :
           k \in 1..Len(shape.types)}

\* SchemaGenerator::into_root_schema_for.
into_root_schema_for(shape, inline_subschemas) ==
    [meta_schema |-> Draft07,
     schema |-> [json_schema(shape, inline_subschemas) EXCEPT !.title = shape.name],
     definitions |->
        IF inline_subschemas THEN <<>>
        ELSE [n \in {d.name : d \in Referenced(shape)} |->
                 json_schema(CHOOSE d \in Referenced(shape) : d.name = n, inline_subschemas)]]

\* Serialize for SchemaObject: absent and empty parts are skipped, the
\* extensions are flattened into the object last.
RECURSIVE InsertAll(_, _)
InsertAll(m, more) ==
    IF DOMAIN more = {} THEN m
    ELSE LET k == CHOOSE x \in DOMAIN more : TRUE
         IN  InsertAll(MapInsert(m, k, more[k]), MapRemove(more, k))

RECURSIVE SchemaToValue(_)
SchemaToValue(schema) ==
    LET m0 == NoMembers
        m1 == IF schema.title = "" THEN m0 ELSE MapInsert(m0, "title", JStr(<<schema.title>>))
        m2 == IF schema.instance_type = "" THEN m1
              ELSE MapInsert(m1, "type", JStr(<<schema.instance_type>>))
        m3 == IF DOMAIN schema.properties = {} THEN m2
              ELSE MapInsert(m2, "properties",
                             JObj([f \in DOMAIN schema.properties |->
                                      SchemaToValue(schema.properties[f])]))
        m4 == IF schema.required = <<>> THEN m3
              ELSE MapInsert(m3, "required",
                             JArr([k \in 1..Len(schema.required) |-> JStr(<<schema.required[k]>>)]))
        m5 == IF schema.reference = "" THEN m4
              ELSE MapInsert(m4, "$ref", JStr(<<schema.reference>>))
    IN  JObj(InsertAll(m5, schema.extensions))

\* Serialize for RootSchema: "$schema", the schema flattened, "definitions"
\* unless empty.
RootSchemaToValue(root) ==
    LET m0 == IF root.meta_schema = "" THEN NoMembers
              ELSE MapInsert(NoMembers, "$schema", JStr(<<root.meta_schema>>))
        m1 == InsertAll(m0, SchemaToValue(root.schema).o)
    IN  JObj(IF DOMAIN root.definitions = {} THEN m1
             ELSE MapInsert(m1, "definitions",
                            JObj([n \in DOMAIN root.definitions |->
                                     SchemaToValue(root.definitions[n])])))

(***************************************************************************)
(* Schemas a caller builds itself and hands to from_schema: generated with *)
(* or without inlining (schema_for! does not inline), with or without the  *)
(* "$schema" member, with extension members of the caller's choice.        *)
(***************************************************************************)
Note == JStr(<<"note">>)
ExtensionSets == {NoExtensions, [k \in {"x-note"} |-> Note], [k \in {"$defs"} |-> Note],
                  [k \in {"$defs", "x-note"} |-> Note], [k \in {"definitions"} |-> Note]}
SuppliedSchemas ==
    {[meta_schema |-> meta,
      schema |-> [into_root_schema_for(shape, inline).schema EXCEPT !.extensions = ext],
      definitions |-> into_root_schema_for(shape, inline).definitions] :
        meta \in {"", Draft07}, shape \in Shapes, inline \in BOOLEAN, ext \in ExtensionSets}


(***************************************************************************)
(* Tool descriptors: ToolInfo, ToolType and ToolFunctionInfo.              *)
(***************************************************************************)
NoToolInfo == [tool_type |-> "None"]

\* ToolInfo::new::<P, T>().
ToolInfoNew(t) ==
    [tool_type |-> "Function",
     function |-> [name |-> t.name, description |-> t.description,
                   parameters |-> into_root_schema_for(t.params, TRUE)]]

\* ToolInfo::from_schema(name, description, schema).
ToolInfoFromSchema(name, description, schema) ==
    [tool_type |-> "Function",
     function |-> [name |-> name, description |-> description, parameters |-> schema]]

\* The derived Serialize of ToolFunctionInfo and of ToolInfo.
ToolFunctionInfoToValue(f) ==
    JObj([k \in {"name", "description", "parameters"} |->
             IF k = "name" THEN JStr(<<f.name>>)
             ELSE IF k = "description" THEN JStr(<<f.description>>)
             ELSE RootSchemaToValue(f.parameters)])

ToolTypeToValue(tool_type) == JStr(<<"function">>)

ToolInfoToValue(info) ==
    JObj([k \in {"type", "function"} |->
             IF k = "type" THEN ToolTypeToValue(info.tool_type)
             ELSE ToolFunctionInfoToValue(info.function)])

Descriptions == {"Weather in a city", "Current time"}

ToolInfoNewAction(t) ==
    /\ toolInfo' = ToolInfoNew(t)
    /\ toolWire' = JNull
    /\ UNCHANGED notDescriptor

ToolInfoFromSchemaAction(name, description, schema) ==
    /\ toolInfo' = ToolInfoFromSchema(name, description, schema)
    /\ toolWire' = JNull
    /\ UNCHANGED notDescriptor

SerializeToolInfo ==
    /\ toolInfo # NoToolInfo
    /\ toolWire = JNull
    /\ toolWire' = ToolInfoToValue(toolInfo)
    /\ UNCHANGED <<toolInfo, notDescriptor>>

DescriptorInit ==
    /\ toolInfo = NoToolInfo
    /\ toolWire = JNull

DescriptorNext ==
    \/ \E t \in ToolTypes : ToolInfoNewAction(t)
    \/ \E name \in CallNames, description \in Descriptions, schema \in SuppliedSchemas :
          ToolInfoFromSchemaAction(name, description, schema)
    \/ SerializeToolInfo

(***************************************************************************)
(* ToolGroup::tool_info: the descriptors of a registry, pushed onto out.   *)
(***************************************************************************)
UnitToolInfo(out) == out
SingleToolInfo(t, out) == Append(out, ToolInfoNew(t))

RECURSIVE tool_info(_, _)
PairToolInfoRightFirst(a, b, out) == tool_info(a, tool_info(b, out))
PairToolInfo(a, b, out) == tool_info(b, tool_info(a, out))

tool_info(g, out) ==
    IF g.kind = "unit" THEN UnitToolInfo(out)
    ELSE IF g.kind = "tool" THEN SingleToolInfo(g.tool, out)
    ELSE PairToolInfo(g.l, g.r, out)

\* Lists a caller may hold before it enumerates into them.
CallerLists == {<<>>, <<ToolInfoFromSchema("lookup", "Current time",
                                             into_root_schema_for(City, FALSE))>>}
ListIds == {1, 2}

Enumerate(k) ==
    /\ enumCount[k] < MaxEnum
    /\ lists' = [lists EXCEPT ![k] = tool_info(registry, lists[k])]
    /\ enumCount' = [enumCount EXCEPT ![k] = enumCount[k] + 1]
    /\ UNCHANGED <<registry, notEnumerate>>

EnumerateInit ==
    /\ registry \in Registries
    /\ lists \in [ListIds -> CallerLists]
    /\ enumCount = [k \in ListIds |-> 0]

EnumerateNext == \E k \in ListIds : Enumerate(k)


(***************************************************************************)
(* The response format: FormatType and JsonStructure.                      *)
(***************************************************************************)
NoFormat == [kind |-> "None"]
FormatJson == [kind |-> "Json"]
StructuredJson(structure) == [kind |-> "StructuredJson", structure |-> structure]

\* JsonStructure::new::<T>().
JsonStructureNew(shape) == [schema |-> into_root_schema_for(shape, TRUE)]
\* JsonStructure::from_schema(schema).
JsonStructureFromSchema(schema) == [schema |-> schema]

\* What a serializer returns: Ok with the value written, or its error.
NoWire == [ok |-> FALSE, value |-> JNull, error |-> "not serialized"]
SerOk(value) == [ok |-> TRUE, value |-> value, error |-> ""]
SerError(error) == [ok |-> FALSE, value |-> JNull, error |-> error]

\* Serialize for JsonStructure, from the Value of the schema on.
RenameDefinitionsKeepingOld(members) ==
    IF "definitions" \in DOMAIN members
    THEN MapInsert(members, "$defs", members["definitions"])
    ELSE members

RenameDefinitions(members) ==
    IF "definitions" \in DOMAIN members
    THEN MapInsert(MapRemove(members, "definitions"), "$defs", members["definitions"])
    ELSE members

SerializeSchemaValue(value) ==
    IF ~IsObject(value) THEN SerError("Schema root must be an object")
    ELSE SerOk(JObj(RenameDefinitions(value.o)))

JsonStructureSerialize(structure) == SerializeSchemaValue(RootSchemaToValue(structure.schema))

\* Serialize for FormatType.
FormatTypeSerialize(f) ==
    IF f.kind = "Json" THEN SerOk(JStr(<<"json">>))
    ELSE JsonStructureSerialize(f.structure)

PlainJson ==
    /\ format' = FormatJson
    /\ formatWire' = NoWire
    /\ UNCHANGED notFormat

StructuredNew(shape) ==
    /\ format' = StructuredJson(JsonStructureNew(shape))
    /\ formatWire' = NoWire
    /\ UNCHANGED notFormat

StructuredFromSchema(schema) ==
    /\ format' = StructuredJson(JsonStructureFromSchema(schema))
    /\ formatWire' = NoWire
    /\ UNCHANGED notFormat

SerializeFormat ==
    /\ format # NoFormat
    /\ formatWire = NoWire
    /\ formatWire' = FormatTypeSerialize(format)
    /\ UNCHANGED <<format, notFormat>>

FormatInit ==
    /\ format = NoFormat
    /\ formatWire = NoWire

FormatNext ==
    \/ PlainJson
    \/ \E shape \in Shapes : StructuredNew(shape)
    \/ \E schema \in SuppliedSchemas : StructuredFromSchema(schema)
    \/ SerializeFormat

(***************************************************************************)
(* The keep-alive directive: KeepAlive and TimeUnit.                       *)
(***************************************************************************)
NoKeepAlive == [kind |-> "None", time |-> 0, unit |-> "None"]
Indefinitely == [kind |-> "Indefinitely", time |-> 0, unit |-> "None"]
UnloadOnCompletion == [kind |-> "UnloadOnCompletion", time |-> 0, unit |-> "None"]
Until(time, unit) == [kind |-> "Until", time |-> time, unit |-> unit]
TimeUnits == {"Seconds", "Minutes", "Hours"}
KeepAlives == {Indefinitely, UnloadOnCompletion}
              \cup {Until(time, unit) : time \in 0..MaxTime, unit \in TimeUnits}

\* TimeUnit::to_symbol.
to_symbol_h(unit) ==
    IF unit = "Seconds" THEN <<"s">>
    ELSE IF unit = "Minutes" THEN <<"m">>
    ELSE <<"h">>

to_symbol(unit) ==
    IF unit = "Seconds" THEN <<"s">>
    ELSE IF unit = "Minutes" THEN <<"m">>
    ELSE <<"h", "r">>

\* u64::to_string: the decimal digits, the most significant first.
DigitChars == <<"0", "1", "2", "3", "4", "5", "6", "7", "8", "9">>

RECURSIVE U64ToString(_)
U64ToString(n) ==
    IF n < 10 THEN <<DigitChars[n + 1]>>
    ELSE Append(U64ToString(n \div 10), DigitChars[(n % 10) + 1])

\* Serialize for KeepAlive.
KeepAliveSerialize(k) ==
    IF k.kind = "Indefinitely" THEN SerOk(JInt(-1))
    ELSE IF k.kind = "UnloadOnCompletion" THEN SerOk(JInt(0))
    ELSE SerOk(JStr(U64ToString(k.time) \o to_symbol(k.unit)))

ChooseKeepAlive(k) ==
    /\ keepAlive' = k
    /\ keepAliveWire' = NoWire
    /\ UNCHANGED notKeepAlive

SerializeKeepAlive ==
    /\ keepAlive # NoKeepAlive
    /\ keepAliveWire = NoWire
    /\ keepAliveWire' = KeepAliveSerialize(keepAlive)
    /\ UNCHANGED <<keepAlive, notKeepAlive>>

KeepAliveInit ==
    /\ keepAlive = NoKeepAlive
    /\ keepAliveWire = NoWire

KeepAliveNext ==
    \/ \E k \in KeepAlives : ChooseKeepAlive(k)
    \/ SerializeKeepAlive

(***************************************************************************)
(* Specifications.  Spec is the dispatch of incoming calls by a registry;  *)
(* the others are the enumeration of a registry's descriptors, the         *)
(* descriptors on the wire, and the two directives on the wire.            *)
(***************************************************************************)
NoDispatch == call = NoCall /\ stack = <<>> /\ ret = NoResult /\ log = <<>>
NoEnumeration == lists = [k \in ListIds |-> <<>>] /\ enumCount = [k \in ListIds |-> 0]

Init ==
    /\ DispatchInit
    /\ NoEnumeration /\ DescriptorInit /\ FormatInit /\ KeepAliveInit

Next == DispatchNext

Spec == Init /\ [][Next]_vars

EnumerateSpecInit ==
    /\ EnumerateInit
    /\ NoDispatch /\ DescriptorInit /\ FormatInit /\ KeepAliveInit

EnumerateSpec == EnumerateSpecInit /\ [][EnumerateNext]_vars

DirectiveInit ==
    /\ registry = Unit
    /\ NoDispatch /\ NoEnumeration /\ DescriptorInit /\ FormatInit /\ KeepAliveInit

DescriptorSpec == DirectiveInit /\ [][DescriptorNext]_vars

FormatSpec == DirectiveInit /\ [][FormatNext]_vars

KeepAliveSpec == DirectiveInit /\ [][KeepAliveNext]_vars


(***************************************************************************)
(* Properties of dispatch, under Spec.                                     *)
(***************************************************************************)
\* The paths of the capabilities of a registry, left to right.
RECURSIVE LeafPaths(_, _)
LeafPaths(g, path) ==
    IF g.kind = "unit" THEN <<>>
    ELSE IF g.kind = "tool" THEN <<path>>
    ELSE LeafPaths(g.l, Append(path, 0)) \o LeafPaths(g.r, Append(path, 1))

Dispatched == log # <<>>
Completed == Dispatched /\ Idle
Leaves == LeafPaths(registry, <<>>)
LeafTool(k) == NodeAt(registry, Leaves[k]).tool
Matching == {k \in 1..Len(Leaves) : LeafTool(k).name = call.name}
FirstMatch == CHOOSE k \in Matching : \A j \in Matching : k <= j
Decodes(k) == from_value(LeafTool(k).params, call.arguments).ok
EventsOf(ev) == {k \in 1..Len(log) : log[k].ev = ev}
Invoked == {log[k].path : k \in EventsOf("invoke")}
Started == {log[k].path : k \in EventsOf("start")}
\* The result a ToolGroup::call at a path returned, NoResult if it has not.
DoneAt(path) ==
    IF \E k \in EventsOf("done") : log[k].path = path
    THEN log[CHOOSE k \in EventsOf("done") : log[k].path = path].res
    ELSE NoResult
PairPaths == {log[k].path : k \in {j \in EventsOf("start") : NodeAt(registry, log[j].path).kind = "pair"}}

\* C1: a dispatch invokes the call operation of at most one capability, and
\* only of the first capability, left to right, whose name is the call's; a
\* completed dispatch has invoked it if the arguments decode into its
\* parameters.
C1_FirstMatchOnly ==
    Dispatched =>
        /\ Cardinality(EventsOf("invoke")) <= 1
        /\ \A p \in Invoked : Matching # {} /\ p = Leaves[FirstMatch]
        /\ (Completed /\ Matching # {} /\ Decodes(FirstMatch))
               => Invoked = {Leaves[FirstMatch]}

\* A completed dispatch that invoked a capability which is neither the first
\* nor the only one of the registry with the call's name.
C1_Witness ==
    /\ Completed
    /\ Cardinality(Matching) >= 2
    /\ \E p \in Invoked : p # Leaves[1]

\* C2: a dispatch of a name that no held capability has invokes no
\* capability and returns UnknownToolName.
C2_UnknownName ==
    (Dispatched /\ Matching = {}) =>
        /\ Invoked = {}
        /\ Completed => ret = UnknownToolName

\* A completed dispatch of an unmatched name by a composition that holds the
\* empty registry and two capabilities.
C2_Witness ==
    /\ Completed /\ Matching = {}
    /\ ret = UnknownToolName
    /\ Len(Leaves) >= 2
    /\ \E p \in Started : NodeAt(registry, p).kind = "unit"

\* C3: when the arguments do not decode into the parameters of the first
\* capability with the call's name, no capability is invoked, no capability
\* after it is tried, and the dispatch returns ArgumentDecodeFailed.
C3_DecodeFailureIsFinal ==
    (Dispatched /\ Matching # {} /\ ~Decodes(FirstMatch)) =>
        /\ Invoked = {}
        /\ \A k \in (FirstMatch + 1)..Len(Leaves) : Leaves[k] \notin Started
        /\ Completed => ret.tag = "ArgumentDecodeFailed"

\* A completed dispatch whose matched capability could not decode arguments
\* that a later capability of the registry decodes.
C3_Witness ==
    /\ Completed /\ Matching # {} /\ ~Decodes(FirstMatch)
    /\ ret.tag = "ArgumentDecodeFailed"
    /\ \E k \in (FirstMatch + 1)..Len(Leaves) : Decodes(k)

\* C4: when the call operation of the matched capability returns an error,
\* the dispatch returns ExecutionFailed with that error as its cause, and
\* nothing is tried or invoked after the capability returned.
C4_ExecutionFailureIsFinal ==
    \A k \in EventsOf("outcome") : log[k].res.tag = "CallErr" =>
        /\ DoneAt(log[k].path) = [tag |-> "ExecutionFailed", text |-> <<>>,
                                  cause |-> log[k].res.cause]
        /\ \A j \in (k + 1)..Len(log) : log[j].ev = "done"
        /\ Cardinality(EventsOf("invoke")) = 1
        /\ Completed => ret = [tag |-> "ExecutionFailed", text |-> <<>>,
                               cause |-> log[k].res.cause]

\* A completed dispatch whose capability failed with capabilities after it.
C4_Witness ==
    /\ Completed
    /\ \E k \in EventsOf("outcome") :
          /\ log[k].res.tag = "CallErr"
          /\ log[k].path # Leaves[Len(Leaves)]
    /\ ret.tag = "ExecutionFailed"

\* C5: a composition (A, B) runs A to completion first; B is started only
\* after A returned UnknownToolName; what A returned otherwise is what the
\* composition returns, and after UnknownToolName from A the composition
\* returns what B returns.
C5_LeftThenRight ==
    \A p \in PairPaths :
        LET left == Append(p, 0)
            right == Append(p, 1)
        IN  /\ right \in Started => left \in Started /\ DoneAt(left) = UnknownToolName
            /\ DoneAt(p) # NoResult =>
                  /\ DoneAt(left) # NoResult
                  /\ DoneAt(left) # UnknownToolName =>
                        right \notin Started /\ DoneAt(p) = DoneAt(left)
                  /\ DoneAt(left) = UnknownToolName =>
                        right \in Started /\ DoneAt(p) = DoneAt(right)

\* A completed dispatch in which one composition returned what its left
\* side returned, an error, and another went on to its right side.
C5_Witness ==
    /\ Completed
    /\ \E p \in PairPaths :
          DoneAt(Append(p, 0)).tag \in {"ArgumentDecodeFailed", "ExecutionFailed"}
    /\ \E p \in PairPaths : Append(p, 1) \in Started


\* Reading a JSON string literal back: the text between the quotes with its
\* escapes undone; not ok when the text is no JSON string literal.
NotJson == [ok |-> FALSE, text |-> <<>>]
RECURSIVE Unescaped(_)
Unescaped(body) ==
    IF body = <<>> THEN [ok |-> TRUE, text |-> <<>>]
    ELSE IF body[1] = Backslash
    THEN IF Len(body) < 2 \/ body[2] \notin {Quote, Backslash, "n"} THEN NotJson
         ELSE LET rest == Unescaped(SubSeq(body, 3, Len(body)))
                  c == IF body[2] = "n" THEN LineFeed ELSE body[2]
              IN  IF rest.ok THEN [ok |-> TRUE, text |-> <<c>> \o rest.text] ELSE NotJson
    ELSE IF body[1] \in {Quote, LineFeed} THEN NotJson
    ELSE LET rest == Unescaped(Tail(body))
         IN  IF rest.ok THEN [ok |-> TRUE, text |-> <<body[1]>> \o rest.text] ELSE NotJson

JsonStringRead(text) ==
    IF Len(text) < 2 \/ text[1] # Quote \/ text[Len(text)] # Quote THEN NotJson
    ELSE Unescaped(SubSeq(text, 2, Len(text) - 1))

\* C7 as stated: when the call operation of the matched capability succeeds
\* with text r, the string the dispatch returns is r.
C7_ReturnsResultText ==
    \A k \in EventsOf("outcome") :
        (log[k].res.tag = "CallOk" /\ Completed) => ret = Ok(log[k].res.text)

\* C7 as amended: when the call operation of the matched capability succeeds
\* with text r, the dispatch returns the JSON string literal of r: a text
\* between double quotes that reads back as r, and so is not r itself.
C7_ReturnsJsonStringOfResult ==
    \A k \in EventsOf("outcome") : log[k].res.tag = "CallOk" =>
        LET res == DoneAt(log[k].path)
        IN  /\ res.tag = "Ok"
            /\ JsonStringRead(res.text) = [ok |-> TRUE, text |-> log[k].res.text]
            /\ res.text # log[k].res.text
            /\ Completed => ret = res

\* A completed dispatch by a composition whose capability succeeded with a
\* text that holds a quote.
C7_Witness ==
    /\ Completed /\ ret.tag = "Ok"
    /\ registry.kind = "pair"
    /\ \E k \in EventsOf("outcome") :
          \E j \in 1..Len(log[k].res.text) : log[k].res.text[j] = Quote

(***************************************************************************)
(* Properties of the enumeration, under EnumerateSpec.                     *)
(***************************************************************************)
\* The descriptors of a registry as the concatenation of those of its parts.
RECURSIVE Descriptors(_)
Descriptors(g) ==
    IF g.kind = "unit" THEN <<>>
    ELSE IF g.kind = "tool" THEN <<ToolInfoNew(g.tool)>>
    ELSE Descriptors(g.l) \o Descriptors(g.r)

RECURSIVE Repeat(_, _)
Repeat(seq, n) == IF n = 0 THEN <<>> ELSE seq \o Repeat(seq, n - 1)

\* What list k held before anything was enumerated into it.
HeldBefore(k) ==
    SubSeq(lists[k], 1, Len(lists[k]) - enumCount[k] * Len(Descriptors(registry)))

\* C6: each enumeration appends, to what the list holds, the descriptors of
\* the left part followed by those of the right part, recursively: nothing
\* for the empty registry and one descriptor for a capability; two lists
\* that were empty hold the same after one enumeration into each.
C6_EnumerateAppendsInOrder ==
    /\ \A k \in ListIds :
          /\ HeldBefore(k) \in CallerLists
          /\ lists[k] = HeldBefore(k) \o Repeat(Descriptors(registry), enumCount[k])
    /\ registry.kind = "unit" => \A k \in ListIds : lists[k] = HeldBefore(k)
    /\ registry.kind = "tool" =>
          \A k \in ListIds :
              /\ Len(lists[k]) = Len(HeldBefore(k)) + enumCount[k]
              /\ \A j \in (Len(HeldBefore(k)) + 1)..Len(lists[k]) :
                    lists[k][j].function.name = registry.tool.name
    /\ (\A k \in ListIds : enumCount[k] = 1 /\ HeldBefore(k) = <<>>) => lists[1] = lists[2]

\* Two enumerations of a composition of different capabilities into a list
\* that held a descriptor, and one into a list that was empty.
C6_Witness ==
    /\ enumCount[1] = 2 /\ enumCount[2] = 1
    /\ HeldBefore(1) # <<>> /\ HeldBefore(2) = <<>>
    /\ Len(lists[2]) >= 2
    /\ lists[2][1] # lists[2][2]

(***************************************************************************)
(* Properties of the descriptors on the wire, under DescriptorSpec.        *)
(***************************************************************************)
\* Whether a JSON value holds key k at any depth.
RECURSIVE HasKeyAnywhere(_, _)
HasKeyAnywhere(v, k) ==
    \/ HasKey(v, k)
    \/ IsObject(v) /\ \E x \in Keys(v) : HasKeyAnywhere(v.o[x], k)

\* C8: a descriptor built by either constructor serializes as type
\* "function" and a function of name, description and parameters, where
\* parameters holds its definitions under "$defs", never under
\* "definitions", and no "$ref" at any depth.
C8_DescriptorWire ==
    toolWire # JNull =>
        /\ IsObject(toolWire) /\ Keys(toolWire) = {"type", "function"}
        /\ toolWire.o["type"] = JStr(<<"function">>)
        /\ Keys(toolWire.o["function"]) = {"name", "description", "parameters"}
        /\ toolWire.o["function"].o["name"] = JStr(<<toolInfo.function.name>>)
        /\ toolWire.o["function"].o["description"] = JStr(<<toolInfo.function.description>>)
        /\ LET parameters == toolWire.o["function"].o["parameters"]
           IN  /\ IsObject(parameters)
               /\ ~HasKey(parameters, "definitions")
               /\ DOMAIN toolInfo.function.parameters.definitions # {}
                     => HasKey(parameters, "$defs")
               /\ ~HasKeyAnywhere(parameters, "$ref")

(***************************************************************************)
(* Properties of the response format on the wire, under FormatSpec.        *)
(***************************************************************************)
Serialized == formatWire # NoWire
\* The schema document of a structured format.
Document == RootSchemaToValue(format.structure.schema)
NotObjects == {JNull, JInt(0), JStr(<<"json">>), JArr(<<>>)}

\* C9 as stated: Json serializes to the string "json"; a structure to its
\* schema document as an object in which the value of "definitions", if
\* any, is under "$defs", no "definitions" remains, and every other key has
\* its value unchanged; a schema whose root is no object fails to serialize.
C9_FormatWire ==
    /\ (Serialized /\ format.kind = "Json") => formatWire = SerOk(JStr(<<"json">>))
    /\ (Serialized /\ format.kind = "StructuredJson") =>
          /\ formatWire.ok /\ IsObject(formatWire.value)
          /\ ~HasKey(formatWire.value, "definitions")
          /\ HasKey(Document, "definitions") =>
                /\ HasKey(formatWire.value, "$defs")
                /\ formatWire.value.o["$defs"] = Document.o["definitions"]
          /\ \A k \in Keys(Document) \ {"definitions"} :
                HasKey(formatWire.value, k) /\ formatWire.value.o[k] = Document.o[k]
    /\ \A v \in NotObjects : ~SerializeSchemaValue(v).ok

\* C9 as amended: as stated, but the keys whose values are unchanged are
\* those other than "definitions" and "$defs"; "$defs" keeps its value only
\* when the document has no "definitions", and the object has no keys but
\* those of the document and "$defs".
C9_FormatWireAmended ==
    /\ (Serialized /\ format.kind = "Json") => formatWire = SerOk(JStr(<<"json">>))
    /\ (Serialized /\ format.kind = "StructuredJson") =>
          /\ formatWire.ok /\ IsObject(formatWire.value)
          /\ ~HasKey(formatWire.value, "definitions")
          /\ HasKey(Document, "definitions") =>
                /\ HasKey(formatWire.value, "$defs")
                /\ formatWire.value.o["$defs"] = Document.o["definitions"]
          /\ ~HasKey(Document, "definitions") => formatWire.value = Document
          /\ \A k \in Keys(Document) \ {"definitions", "$defs"} :
                HasKey(formatWire.value, k) /\ formatWire.value.o[k] = Document.o[k]
          /\ Keys(formatWire.value) \subseteq (Keys(Document) \cup {"$defs"})
    /\ \A v \in NotObjects : ~SerializeSchemaValue(v).ok

\* A serialized structure whose document holds definitions and other keys.
C9_Witness ==
    /\ Serialized /\ format.kind = "StructuredJson"
    /\ HasKey(Document, "definitions") /\ HasKey(Document, "$schema")
    /\ HasKey(formatWire.value, "$defs") /\ HasKey(formatWire.value, "$schema")

(***************************************************************************)
(* Properties of the keep-alive directive on the wire, under KeepAliveSpec.*)
(***************************************************************************)
Digits == {"0", "1", "2", "3", "4", "5", "6", "7", "8", "9"}
DigitValue(c) ==
    CASE c = "0" -> 0 [] c = "1" -> 1 [] c = "2" -> 2 [] c = "3" -> 3 [] c = "4" -> 4
      [] c = "5" -> 5 [] c = "6" -> 6 [] c = "7" -> 7 [] c = "8" -> 8 [] OTHER -> 9

RECURSIVE DecimalValue(_)
DecimalValue(digits) ==
    IF digits = <<>> THEN 0
    ELSE 10 * DecimalValue(SubSeq(digits, 1, Len(digits) - 1)) + DigitValue(digits[Len(digits)])

UnitSymbol(unit) ==
    CASE unit = "Seconds" -> <<"s">> [] unit = "Minutes" -> <<"m">> [] unit = "Hours" -> <<"h", "r">>

\* C10: every keep-alive serializes, without failure: Indefinitely to the
\* integer -1, UnloadOnCompletion to the integer 0, and Until to the string
\* of the decimal digits of its time followed by the symbol of its unit,
\* "s", "m" or "hr".
C10_KeepAliveWire ==
    keepAliveWire # NoWire =>
        /\ keepAliveWire.ok
        /\ keepAlive.kind = "Indefinitely" => keepAliveWire.value = JInt(-1)
        /\ keepAlive.kind = "UnloadOnCompletion" => keepAliveWire.value = JInt(0)
        /\ keepAlive.kind = "Until" =>
              LET text == keepAliveWire.value.s
                  symbol == UnitSymbol(keepAlive.unit)
                  digits == SubSeq(text, 1, Len(text) - Len(symbol))
              IN  /\ keepAliveWire.value = JStr(text)
                  /\ Len(text) > Len(symbol)
                  /\ SubSeq(text, Len(digits) + 1, Len(text)) = symbol
                  /\ \A j \in 1..Len(digits) : digits[j] \in Digits
                  /\ Len(digits) = 1 \/ digits[1] # "0"
                  /\ DecimalValue(digits) = keepAlive.time
        /\ keepAlive = Until(5, "Minutes") => keepAliveWire.value.s = <<"5", "m">>
        /\ keepAlive = Until(2, "Hours") => keepAliveWire.value.s = <<"2", "h", "r">>
        /\ keepAlive = Until(30, "Seconds") => keepAliveWire.value.s = <<"3", "0", "s">>

\* A serialized keep-alive of two digits of hours.
C10_Witness ==
    /\ keepAliveWire # NoWire
    /\ keepAlive.kind = "Until" /\ keepAlive.unit = "Hours" /\ keepAlive.time >= 10
    /\ Len(keepAliveWire.value.s) = 4

=============================================================================
